---- MODULE Spec2Model ----
(***************************************************************************)
(* Flat Tabs interface for Directus (directus-extension-flat-tabs-        *)
(* interface): the group-membership resolver (getFieldsForGroup), the     *)
(* per-tab Fields component (filteredInitialValues, filteredValues,       *)
(* handleModelUpdate) and the tab-activation controller of the interface  *)
(* component (watchers, findTabGroupForField), and the section builder of *)
(* interface.vue (useGroupSection.sections).                              *)
(*                                                                         *)
(* A field descriptor is a record                                          *)
(*     [field |-> name, group |-> meta.group, special |-> isGroup,        *)
(*      hideLabel |-> FALSE]                                               *)
(* where group = Null stands for a null/undefined meta.group and special   *)
(* for meta.special.includes("group").  A value dictionary is a function   *)
(* from a set of keys to values; values are modelled by their content, so  *)
(* lodash's isEqual (deep, structural) is equality of contents.            *)
(***************************************************************************)
EXTENDS Integers, Sequences, FiniteSets, TLC

VARIABLES
    fields,            \* props.fields of the interface: the flat field list
    values,            \* props.values of the interface = props.allValues of Fields
    initialValues,     \* props.initialValues
    validationErrors,  \* props.validationErrors: sequence of error field names
    activeTab,         \* ref activeTab (Null = undefined)
    groupFields,       \* ref groupFields of useComputedGroup
    groupValues,       \* ref groupValues of useComputedGroup
    thrown,            \* TRUE if the last update cycle or the render raised an error
    build,             \* which source file is mounted: the Fields component that handles
                       \* the v-form update, or the interface component (SpecMount)
    last,              \* the last handleModelUpdate call (NoCall: none since the last host snapshot)
    lastApply,         \* dictionary of the most recent 'apply' event (NoEvent: none)
    rGroup,            \* resolver run: the group id getFieldsForGroup was called with
    stack,             \* resolver run: call stack of getFieldsForGroup frames
    passed,            \* resolver run: the shared mutable array `passed`
    descents,          \* resolver run: group ids of the recursive calls, in order
    result,            \* resolver run: returned array
    pc,                \* resolver run: "idle" | "run" | "done" | "overflow"
    upd                \* the last host update cycle of the interface (NoUpdate: none)

vars == <<fields, values, initialValues, validationErrors, activeTab, groupFields,
          groupValues, thrown, build, last, lastApply, rGroup, stack, passed,
          descents, result, pc, upd>>

ifaceVars == <<fields, values, initialValues, validationErrors, activeTab,
               groupFields, groupValues, thrown, upd>>
fieldsVars == <<build, last, lastApply>>
resolverVars == <<rGroup, stack, passed, descents, result, pc>>

----------------------------------------------------------------------------
(* Sentinels *)

Null == "null"
Undefined == "undefined"
TopField == "tabs"

InSeq(x, s) == \E i \in 1..Len(s) : s[i] = x
Range(s) == {s[i] : i \in 1..Len(s)}
NoDup(s) == \A i, j \in 1..Len(s) : i # j => s[i] # s[j]
FieldNames(fs) == {fs[i].field : i \in 1..Len(fs)}

Fld(name, grp, isGroup) ==
    [field |-> name, group |-> grp, special |-> isGroup, hideLabel |-> FALSE]

----------------------------------------------------------------------------
(* getFieldsForGroup: the group-membership resolver.                       *)
(* The array `passed` is one mutable array shared by the whole recursion,  *)
(* and the for..of loop runs over fieldsInGroup while it grows, so the     *)
(* operator threads `passed` through and loops by index.                   *)

ChildrenOf(group, allFields) ==
    SelectSeq(allFields, LAMBDA f : f.group = group)

\* the test without the group marker
DescendGuardAnyField(f, passedNow) == ~InSeq(f.field, passedNow)

\* the test without the visited check
DescendGuardNoPassed(f, passedNow) == f.special

\* the test of the for..of loop: the field is a group not yet in `passed`
DescendGuard(f, passedNow) == f.special /\ ~InSeq(f.field, passedNow)

RECURSIVE GetFieldsRun(_, _, _)
RECURSIVE GetFieldsLoop(_, _, _, _)

GetFieldsLoop(fieldsInGroup, i, passedIn, allFields) ==
    IF i > Len(fieldsInGroup)
    THEN [list |-> fieldsInGroup, passed |-> passedIn]
    ELSE LET f == fieldsInGroup[i] IN
         IF DescendGuard(f, passedIn)
         THEN LET sub == GetFieldsRun(f.field, Append(passedIn, f.field), allFields)
              IN GetFieldsLoop(fieldsInGroup \o sub.list, i + 1, sub.passed, allFields)
         ELSE GetFieldsLoop(fieldsInGroup, i + 1, passedIn, allFields)

GetFieldsRun(group, passedIn, allFields) ==
    GetFieldsLoop(ChildrenOf(group, allFields), 1, passedIn, allFields)

getFieldsForGroup(group, allFields) ==
    GetFieldsRun(group, <<>>, allFields).list

----------------------------------------------------------------------------
(* Value dictionaries (Record<string, unknown>) *)

EmptyDict == [k \in {} |-> Null]

\* lodash isEqual: deep comparison by content
isEqual(a, b) == a = b

\* d[k], undefined when the key is absent
Get(d, k) == IF k \in DOMAIN d THEN d[k] ELSE Undefined

\* the entries of d whose key is in S
Pick(d, S) == [k \in (DOMAIN d) \cap S |-> d[k]]

\* { ...a, ...b }
Assign(a, b) == [k \in (DOMAIN a) \cup (DOMAIN b) |-> IF k \in DOMAIN b THEN b[k] ELSE a[k]]

----------------------------------------------------------------------------
(* Fields component: the section of one tab and its value view / merge *)

\* useGroupSection: the tab's own field with its label hidden, then, for a
\* group field, all its descendants
\* the section without the copy that hides the label
fieldsInSectionLabelled(field, allFields) ==
    <<field>> \o (IF field.special THEN getFieldsForGroup(field.field, allFields) ELSE <<>>)

fieldsInSection(field, allFields) ==
    <<[field EXCEPT !.hideLabel = TRUE]>>
        \o (IF field.special THEN getFieldsForGroup(field.field, allFields) ELSE <<>>)

\* filteredInitialValues returning {} (the early return taken wrongly)
filteredInitialValuesEmpty(initial, section) == EmptyDict

filteredInitialValues(initial, section) == Pick(initial, FieldNames(section))

filteredValues(vals, section) == Pick(vals, FieldNames(section))

\* handleModelUpdate starting from an empty dictionary instead of the values
\* outside the tab
handleModelUpdateNoKeep(newValues, allVals, initial, section) ==
    LET fInit == filteredInitialValues(initial, section)
        edits == Pick(newValues, {k \in DOMAIN newValues :
                                    ~isEqual(newValues[k], Get(fInit, k))})
    IN [merged |-> edits, emitted |-> ~isEqual(edits, allVals)]

\* handleModelUpdate with the test on tabFieldNames inverted: the values of
\* the tab are kept, the values outside it are not
handleModelUpdateKeepInside(newValues, allVals, initial, section) ==
    LET kept == Pick(allVals, FieldNames(section))
        fInit == filteredInitialValues(initial, section)
        edits == Pick(newValues, {k \in DOMAIN newValues :
                                    ~isEqual(newValues[k], Get(fInit, k))})
        mergedValues == Assign(kept, edits)
    IN [merged |-> mergedValues, emitted |-> ~isEqual(mergedValues, allVals)]

\* handleModelUpdate taking every key of newValues, equal to the initial value
\* or not
handleModelUpdateNoDelta(newValues, allVals, initial, section) ==
    LET kept == Pick(allVals, (DOMAIN allVals) \ FieldNames(section))
        mergedValues == Assign(kept, newValues)
    IN [merged |-> mergedValues, emitted |-> ~isEqual(mergedValues, allVals)]

\* handleModelUpdate emitting without the comparison with allValues
handleModelUpdateAlwaysEmit(newValues, allVals, initial, section) ==
    LET kept == Pick(allVals, (DOMAIN allVals) \ FieldNames(section))
        fInit == filteredInitialValues(initial, section)
        edits == Pick(newValues, {k \in DOMAIN newValues :
                                    ~isEqual(newValues[k], Get(fInit, k))})
    IN [merged |-> Assign(kept, edits), emitted |-> TRUE]

\* handleModelUpdate keeping the section's keys of allValues that newValues
\* does not mention ({...allValues, ...edits})
handleModelUpdateSpread(newValues, allVals, initial, section) ==
    LET fInit == filteredInitialValues(initial, section)
        edits == Pick(newValues, {k \in DOMAIN newValues :
                                    ~isEqual(newValues[k], Get(fInit, k))})
        mergedValues == Assign(allVals, edits)
    IN [merged |-> mergedValues, emitted |-> ~isEqual(mergedValues, allVals)]

\* handleModelUpdate of the Fields component that merges against the initial
\* values: [merged |-> mergedValues, emitted |-> whether 'apply' is emitted]
handleModelUpdate(newValues, allVals, initial, section) ==
    LET tabFieldNames == FieldNames(section)
        kept == Pick(allVals, (DOMAIN allVals) \ tabFieldNames)
        fInit == filteredInitialValues(initial, section)
        edits == Pick(newValues, {k \in DOMAIN newValues :
                                    ~isEqual(newValues[k], Get(fInit, k))})
        mergedValues == Assign(kept, edits)
    IN [merged |-> mergedValues, emitted |-> ~isEqual(mergedValues, allVals)]

\* handleModelUpdate of src/src/Fields.vue: the delta against the section's
\* current values, spread over allValues
handleModelUpdateFieldsVue(newValues, allVals, vals, section) ==
    LET fv == filteredValues(vals, section)
        changes == Pick(newValues, {k \in DOMAIN newValues :
                                      ~isEqual(Get(fv, k), newValues[k])})
    IN [merged |-> Assign(allVals, changes), emitted |-> DOMAIN changes # {}]

----------------------------------------------------------------------------
(* Interface component: tab fields, visible tabs, value filter, error      *)
(* navigation                                                              *)

limitFields(allFields) == SelectSeq(allFields, LAMBDA f : f.group = TopField)

\* the tab strip without the filter
visibleGroupFieldsAll(gFields, allFields) == gFields

visibleGroupFields(gFields, allFields) ==
    SelectSeq(gFields, LAMBDA g : Len(getFieldsForGroup(g.field, allFields)) > 0)

filterValuesForGroup(vals, gFields, allFields) ==
    LET fieldNames ==
            UNION { {gFields[i].field} \cup
                    (IF gFields[i].special
                     THEN FieldNames(getFieldsForGroup(gFields[i].field, allFields))
                     ELSE {}) : i \in 1..Len(gFields) }
    IN Pick(vals, fieldNames)

\* deepest recursion of findTabGroupForField the engine's call stack takes;
\* a chain longer than the field list is cyclic and never ends
MaxDepth == 8
Overflow == "RangeError"

RECURSIVE FindTab(_, _, _, _)
FindTab(fieldName, gFields, allFields, depth) ==
    IF depth > MaxDepth THEN Overflow
    ELSE IF fieldName \notin FieldNames(allFields) THEN Null
    ELSE LET field == allFields[CHOOSE i \in 1..Len(allFields) :
                                  /\ allFields[i].field = fieldName
                                  /\ \A j \in 1..(i - 1) : allFields[j].field # fieldName]
             fieldGroup == field.group
         IN IF fieldGroup = Null THEN Null
            ELSE IF \E i \in 1..Len(gFields) : gFields[i].field = fieldGroup
                 THEN fieldGroup
                 ELSE FindTab(fieldGroup, gFields, allFields, depth + 1)

findTabGroupForField(fieldName, gFields, allFields) ==
    FindTab(fieldName, gFields, allFields, 1)

----------------------------------------------------------------------------
(* interface.vue with use-group-section.ts: the section builder.  Its      *)
(* field descriptors carry meta.interface, the label (name) and            *)
(* meta.options.title as well; Null stands for an absent one.              *)

GroupRaw == "group-raw"

Child(fieldName, grp, iface, label, optTitle) ==
    [field |-> fieldName, group |-> grp, special |-> iface # "input",
     hideLabel |-> FALSE, interface |-> iface, name |-> label, title |-> optTitle]

\* `Tab ${index + 1}`
TabN(index) == "Tab " \o ToString(index + 1)

\* child.meta?.options?.title || child.name || `Tab ${index + 1}`
SectionTitle(child, index) ==
    IF child.title # Null THEN child.title
    ELSE IF child.name # Null THEN child.name
    ELSE TabN(index)

\* the fields of one section: the child with hideLabel, then the fields that
\* name it as their group
SectionFields(child, children) ==
    <<[child EXCEPT !.hideLabel = TRUE]>> \o
    SelectSeq(children, LAMBDA f : f.group = child.field /\ f.field # child.field)

\* useGroupSection(...).sections; index is 0-based as in Array.prototype.map
sections(children) ==
    LET filtered == SelectSeq(children, LAMBDA c : c.interface = GroupRaw)
        sectionsToProcess == IF Len(filtered) > 0 THEN filtered ELSE children
    IN [i \in 1..Len(sectionsToProcess) |->
          [id |-> sectionsToProcess[i].field,
           title |-> SectionTitle(sectionsToProcess[i], i - 1),
           name |-> sectionsToProcess[i].name,
           index |-> i - 1,
           fields |-> SectionFields(sectionsToProcess[i], children)]]

\* the render of interface.vue evaluates sections[0].id for TabsRoot's
\* default-value: a TypeError when there is no section
RenderThrows(secs) == Len(secs) = 0

----------------------------------------------------------------------------
(* History records *)

NoCall == [called |-> FALSE]
NoEvent == [some |-> FALSE]
NoUpdate == [any |-> FALSE]

----------------------------------------------------------------------------
(* The resolver as a step machine: one frame per active call of            *)
(* getFieldsForGroup, [group, list (fieldsInGroup so far), i (loop index)].*)

MaxFields == 3
MaxStack == 6

Universe == <<"g", "h", "a", "b">>
UNames == Range(Universe)

\* every flat list of the first n names, n <= MaxFields, each field with any
\* group attribute (absent, a listed name, or a name not in the list) and
\* either marked as a group or not
ResolverLists ==
    UNION { { [i \in 1..n |-> Fld(Universe[i], gs[i], sp[i])] :
                gs \in [1..n -> UNames \cup {Null}], sp \in [1..n -> BOOLEAN] }
            : n \in 0..(IF MaxFields < Len(Universe) THEN MaxFields ELSE Len(Universe)) }

ResolverIdle ==
    /\ rGroup = Null /\ stack = <<>> /\ passed = <<>> /\ descents = <<>>
    /\ result = <<>> /\ pc = "idle"

InitResolver ==
    /\ fields \in ResolverLists
    /\ values = <<>> /\ initialValues = <<>> /\ validationErrors = <<>>
    /\ activeTab = Null /\ groupFields = <<>> /\ groupValues = <<>>
    /\ thrown = FALSE
    /\ build = "none" /\ last = NoCall /\ lastApply = NoEvent /\ upd = NoUpdate
    /\ ResolverIdle

\* getFieldsForGroup(g, [], fields) is called (Fields.vue line 200, part_001 line 151)
ResolverCall ==
    /\ pc = "idle"
    /\ \E g \in UNames :
        /\ rGroup' = g
        /\ stack' = <<[group |-> g, list |-> ChildrenOf(g, fields), i |-> 1]>>
    /\ passed' = <<>>
    /\ descents' = <<>>
    /\ result' = <<>>
    /\ pc' = "run"
    /\ UNCHANGED <<ifaceVars, fieldsVars>>

Top == stack[Len(stack)]
SetTop(s, fr) == [s EXCEPT ![Len(s)] = fr]

ResolverDescend ==
    /\ pc = "run"
    /\ Top.i <= Len(Top.list)
    /\ DescendGuard(Top.list[Top.i], passed)
    /\ LET f == Top.list[Top.i] IN
        /\ passed' = Append(passed, f.field)
        /\ descents' = Append(descents, f.field)
        /\ IF Len(stack) >= MaxStack
           THEN /\ pc' = "overflow"
                /\ stack' = stack
           ELSE /\ pc' = "run"
                /\ stack' = Append(stack, [group |-> f.field,
                                           list |-> ChildrenOf(f.field, fields),
                                           i |-> 1])
    /\ UNCHANGED <<rGroup, result, ifaceVars, fieldsVars>>

\* one iteration of the loop that does not descend
ResolverSkip ==
    /\ pc = "run"
    /\ Top.i <= Len(Top.list)
    /\ ~DescendGuard(Top.list[Top.i], passed)
    /\ stack' = SetTop(stack, [Top EXCEPT !.i = Top.i + 1])
    /\ UNCHANGED <<rGroup, passed, descents, result, pc, ifaceVars, fieldsVars>>

\* the loop is over: return fieldsInGroup; the caller pushes it and goes on
ResolverReturn ==
    /\ pc = "run"
    /\ Top.i > Len(Top.list)
    /\ IF Len(stack) = 1
       THEN /\ result' = Top.list
            /\ stack' = <<>>
            /\ pc' = "done"
       ELSE LET caller == stack[Len(stack) - 1]
                rest == SubSeq(stack, 1, Len(stack) - 1)
            IN /\ stack' = SetTop(rest, [caller EXCEPT !.list = caller.list \o Top.list,
                                                       !.i = caller.i + 1])
               /\ result' = result
               /\ pc' = "run"
    /\ UNCHANGED <<rGroup, passed, descents, ifaceVars, fieldsVars>>

NextResolver == ResolverCall \/ ResolverDescend \/ ResolverSkip \/ ResolverReturn

SpecResolver == InitResolver /\ [][NextResolver]_vars /\ WF_vars(NextResolver)

\* the machine and the operator are the same function
ResolverAgrees == pc = "done" => result = getFieldsForGroup(rGroup, fields)

----------------------------------------------------------------------------
(* The interface with the Fields component of the active tab, driven by    *)
(* the host form and by the v-form of the tab.                             *)

FormList ==
    << Fld("grp1", TopField, TRUE), Fld("title", "grp1", FALSE),
       Fld("grp1x", "grp1", TRUE), Fld("subtitle", "grp1x", FALSE),
       Fld("grp2", TopField, TRUE), Fld("body", "grp2", FALSE) >>

\* two tabs of one field each; "subtitle" is then the key of a field of the
\* host form outside the tabs
FlatFormList ==
    << Fld("grp1", TopField, TRUE), Fld("title", "grp1", FALSE),
       Fld("grp2", TopField, TRUE), Fld("body", "grp2", FALSE) >>

FormKeys == {"title", "subtitle", "body"}
ValuesOf(k) ==
    IF k = "body" THEN {"B", "B2"} ELSE IF k = "title" THEN {"A", "A2"} ELSE {"A"}
Dicts(S) ==
    UNION { {d \in [D -> {"A", "A2", "B", "B2"}] : \A k \in D : d[k] \in ValuesOf(k)}
            : D \in SUBSET S }

InitialChoices ==
    { [k \in {"title", "body"} |-> IF k = "title" THEN "A" ELSE "B"],
      [k \in {"title", "subtitle"} |-> "A"] }

\* setup() of the interface: groupFields from limitFields, groupValues and
\* activeTab from the two immediate watchers
Mounted ==
    /\ groupFields = limitFields(fields)
    /\ groupValues = filterValuesForGroup(values, groupFields, fields)
    /\ LET vis == visibleGroupFields(groupFields, fields)
       IN activeTab = IF Len(vis) > 0 THEN vis[1].field ELSE Null
    /\ thrown = FALSE
    /\ upd = NoUpdate

InitFields ==
    /\ fields \in {FormList, FlatFormList}
    /\ initialValues \in InitialChoices
    /\ values = EmptyDict
    /\ validationErrors = <<>>
    /\ Mounted
    /\ build \in {"part_000", "Fields.vue"}
    /\ last = NoCall
    /\ lastApply = NoEvent
    /\ ResolverIdle

\* the tab whose Fields component is rendered (v-for over visibleGroupFields,
\* v-if activeTab === groupField.field)
VisibleTabs == visibleGroupFields(groupFields, fields)
HasActiveFields == \E i \in 1..Len(VisibleTabs) : VisibleTabs[i].field = activeTab
ActiveField ==
    VisibleTabs[CHOOSE i \in 1..Len(VisibleTabs) : VisibleTabs[i].field = activeTab]
ActiveSection == fieldsInSection(ActiveField, fields)
\* :model-value of the tab's v-form
ShownValues == filteredValues(groupValues, ActiveSection)

\* the values of the TabsTrigger elements: the visible tabs of part_001, the
\* sections of interface.vue
TabStrip ==
    IF build = "interface.vue"
    THEN [i \in 1..Len(sections(fields)) |-> sections(fields)[i].id]
    ELSE [i \in 1..Len(VisibleTabs) |-> VisibleTabs[i].field]

\* the field f, if the update sets exactly f, shown with its initial value,
\* to a different value
EditOf(nv, shown, initial) ==
    LET fs == {f \in DOMAIN initial :
                 /\ Get(shown, f) \in {Undefined, initial[f]}
                 /\ f \in DOMAIN nv
                 /\ nv[f] # initial[f]
                 /\ nv = Assign(shown, [k \in {f} |-> nv[f]])}
    IN IF fs = {} THEN Null ELSE CHOOSE f \in fs : TRUE

\* the field f, if the previous call edited f away from its initial value,
\* the host applied what it emitted, and this update sets f back
RevertOf(nv, shown, initial) ==
    IF /\ last.called
       /\ last.editOf # Null
       /\ last.emitted
       /\ last.tab = activeTab
       /\ values = last.merged
       /\ nv = Assign(shown, [k \in {last.editOf} |-> initial[last.editOf]])
    THEN last.editOf
    ELSE Null

\* @update:model-value of the tab's v-form: handleModelUpdate(newValues);
\* the interface passes the 'apply' event on to the host
VFormUpdate ==
    /\ HasActiveFields
    /\ \E nv \in Dicts(FormKeys \cap FieldNames(ActiveSection)) :
        LET r == IF build = "part_000"
                 THEN handleModelUpdate(nv, values, initialValues, ActiveSection)
                 ELSE handleModelUpdateFieldsVue(nv, values, groupValues, ActiveSection)
        IN /\ last' = [called |-> TRUE, tab |-> activeTab, newValues |-> nv,
                       allValues |-> values, shown |-> ShownValues,
                       section |-> FieldNames(ActiveSection),
                       merged |-> r.merged, emitted |-> r.emitted,
                       repeat |-> lastApply.some /\ isEqual(r.merged, lastApply.dict),
                       applied |-> lastApply.some /\ isEqual(values, lastApply.dict),
                       editOf |-> EditOf(nv, ShownValues, initialValues),
                       revertOf |-> RevertOf(nv, ShownValues, initialValues)]
           /\ lastApply' = IF r.emitted THEN [some |-> TRUE, dict |-> r.merged]
                           ELSE lastApply
    /\ UNCHANGED <<ifaceVars, build, resolverVars>>

\* watch(() => props.values, ..., {immediate: true})
WatchValues(newVal) ==
    LET filtered == filterValuesForGroup(newVal, groupFields, fields)
    IN groupValues' = IF ~isEqual(groupValues, filtered) THEN filtered ELSE groupValues

\* the host applies the emitted dictionary as the new values
HostApply ==
    /\ lastApply.some
    /\ values # lastApply.dict
    /\ values' = lastApply.dict
    /\ WatchValues(lastApply.dict)
    /\ UNCHANGED <<fields, initialValues, validationErrors, activeTab, groupFields,
                   thrown, upd, fieldsVars, resolverVars>>

\* the host passes another value snapshot (discard, reload, an edit elsewhere)
HostSetValues ==
    /\ \E d \in Dicts(FormKeys) :
        /\ d # values
        /\ values' = d
        /\ WatchValues(d)
    /\ last' = NoCall
    /\ UNCHANGED <<fields, initialValues, validationErrors, activeTab, groupFields,
                   thrown, upd, build, lastApply, resolverVars>>

\* handleTabChange(value): the user selects a tab of the tab strip; the Fields
\* component of the tab left is unmounted (v-if), the selected tab's is created
handleTabChange ==
    /\ \E i \in 1..Len(TabStrip) :
        /\ TabStrip[i] # activeTab
        /\ activeTab' = TabStrip[i]
    /\ last' = NoCall
    /\ upd' = NoUpdate
    /\ UNCHANGED <<fields, values, initialValues, validationErrors, groupFields,
                   groupValues, thrown, build, lastApply, resolverVars>>

NextFields == VFormUpdate \/ HostApply \/ HostSetValues \/ handleTabChange

SpecFields == InitFields /\ [][NextFields]_vars

----------------------------------------------------------------------------
(* The interface under host update cycles: the host passes new snapshots   *)
(* of fields, values and validationErrors (in this order, the order of the *)
(* props in the host's template), the watchers queued by the changes run   *)
(* before the render.                                                      *)

MaxErrors == 2

EmptyList == <<>>

\* a tab without nested fields, a field without group
HiddenTabList ==
    << Fld("grp1", TopField, TRUE), Fld("title", "grp1", FALSE),
       Fld("grp2", TopField, TRUE), Fld("body", Null, FALSE) >>

\* two groups outside the tabs that name each other, a field in a group that
\* is not in the list
CyclicList ==
    << Fld("grp1", TopField, TRUE), Fld("title", "grp1", FALSE),
       Fld("loopa", "loopb", TRUE), Fld("loopb", "loopa", TRUE),
       Fld("subtitle", "ghost", FALSE) >>

TabLists == {EmptyList, FormList, HiddenTabList, CyclicList}
TabValues == {EmptyDict, [k \in {"title"} |-> "A2"]}
ErrorNames == {"subtitle", "body", "loopa"}
\* error lists with one error per field
ErrorLists == UNION { {e \in [1..n -> ErrorNames] : NoDup(e)} : n \in 0..MaxErrors }

InitTabs ==
    /\ fields \in TabLists
    /\ initialValues = EmptyDict
    /\ values = EmptyDict
    /\ validationErrors = <<>>
    /\ Mounted
    /\ build = "part_000"
    /\ last = NoCall
    /\ lastApply = NoEvent
    /\ ResolverIdle

\* the groupFields the values watcher reads when fields and values changed in
\* one cycle: the ones before the fields watcher ran
ValuesWatcherReadsStale(before, after) == before

\* ... the fields watcher was queued first, so it reads the ones after it
ValuesWatcherReads(before, after) == after

\* the watcher of visibleGroupFields without its assignment
WatchVisibleKeeps(tab, visible) == tab

\* callback of watch(() => visibleGroupFields.value): the first visible tab
WatchVisible(tab, visible) == IF Len(visible) > 0 THEN visible[1].field ELSE tab

\* the guards of the callback of watch(() => props.validationErrors)
ErrorsFire(newErrors, oldErrors) ==
    /\ Len(newErrors) # 0
    /\ ~isEqual(newErrors, oldErrors)

\* the rest of that callback: the tab of the first error, if one is found
WatchErrors(tab, target) == IF target \in {Null, Overflow} THEN tab ELSE target

\* One update cycle.  chF, chV, chE: the prop was given a new object.
\*  - watch(props.fields) is queued when fields is set and runs first;
\*  - watch(visibleGroupFields) is queued when fields is set if the computed
\*    read props.fields at its last evaluation (groupFields was not empty),
\*    and otherwise only when the fields watcher assigns groupFields, which
\*    puts it behind the jobs queued meanwhile (lateVisible); a scheduler that
\*    notifies computed subscribers first runs it before the fields watcher
\*    and again after the assignment (computedFirst);
\*  - watch(props.values) and watch(props.validationErrors) follow.
UpdateCycle(chF, chV, chE, computedFirst, newFields, newValues, newErrors) ==
    LET newLimit == limitFields(newFields)
        assigned == chF /\ ~isEqual(groupFields, newLimit)
        gFields == IF assigned THEN newLimit ELSE groupFields
        visibleQueued == chF /\ (Len(groupFields) > 0 \/ assigned)
        lateVisible == assigned /\ (Len(groupFields) = 0 \/ computedFirst)
        visible == visibleGroupFields(gFields, newFields)
        fired == chE /\ ErrorsFire(newErrors, validationErrors)
        target == IF fired
                  THEN findTabGroupForField(newErrors[1], gFields, newFields)
                  ELSE Null
        tabEarly == IF visibleQueued /\ ~lateVisible
                    THEN WatchVisible(activeTab, visible) ELSE activeTab
        tabErrors == IF fired THEN WatchErrors(tabEarly, target) ELSE tabEarly
        tabLate == IF lateVisible THEN WatchVisible(tabErrors, visible) ELSE tabErrors
    IN /\ chF \/ chV \/ chE
       /\ computedFirst => (assigned /\ Len(groupFields) > 0)
       /\ fields' = newFields
       /\ values' = newValues
       /\ validationErrors' = newErrors
       /\ groupFields' = gFields
       /\ groupValues' =
            IF chV
            THEN LET filtered == filterValuesForGroup(
                                     newValues, ValuesWatcherReads(groupFields, gFields),
                                     newFields)
                 IN IF ~isEqual(groupValues, filtered) THEN filtered ELSE groupValues
            ELSE groupValues
       /\ activeTab' = tabLate
       /\ thrown' = (target = Overflow)
       /\ upd' = [any |-> TRUE, fired |-> fired, target |-> target,
                  prevTab |-> activeTab, visibleRan |-> visibleQueued,
                  lateVisible |-> lateVisible, both |-> chF /\ chV]
       /\ UNCHANGED <<initialValues, fieldsVars, resolverVars>>

\* the host of SpecTabs: any combination of new snapshots
HostUpdate ==
    \E chF, chV, chE, computedFirst \in BOOLEAN :
    \E newFields \in (IF chF THEN TabLists ELSE {fields}) :
    \E newValues \in (IF chV THEN TabValues ELSE {values}) :
    \E newErrors \in (IF chE THEN ErrorLists ELSE {validationErrors}) :
        UpdateCycle(chF, chV, chE, computedFirst, newFields, newValues, newErrors)

NextTabs == HostUpdate \/ handleTabChange

SpecTabs == InitTabs /\ [][NextTabs]_vars

----------------------------------------------------------------------------
(* The interface mounted on any field list: the tab strip, a tab selection *)
(* and a first validation error.                                           *)

\* every flat list of the first n names, n <= maxLen, each field a child
\* of the interface's own field, of a listed or unlisted name, or of nothing
MountLists(maxLen) ==
    UNION { { [i \in 1..n |-> Fld(Universe[i], gs[i], sp[i])] :
                gs \in [1..n -> UNames \cup {Null, TopField}], sp \in [1..n -> BOOLEAN] }
            : n \in 0..(IF maxLen < Len(Universe) THEN maxLen ELSE Len(Universe)) }

MaxChildren == 2

\* field lists for the section builder: the first n names, n <= maxLen,
\* each a child of the interface's field, of the first name or of nothing,
\* a raw group, another group or a plain field, without label, with a label,
\* or with a label and a title option
SectionLists(maxLen) ==
    UNION { { [i \in 1..n |-> Child(Universe[i], gs[i], kind[i],
                                    IF tt[i] = "none" THEN Null ELSE "Label",
                                    IF tt[i] = "title" THEN "Title" ELSE Null)] :
                gs \in [1..n -> {TopField, Null, Universe[1]}],
                kind \in [1..n -> {GroupRaw, "group-detail", "input"}],
                tt \in [1..n -> {"none", "label", "title"}] }
            : n \in 0..(IF maxLen < Len(Universe) THEN maxLen ELSE Len(Universe)) }

\* setup() and first render of interface.vue: activeTab from the immediate
\* watcher of sections
MountedSections ==
    /\ groupFields = <<>>
    /\ groupValues = EmptyDict
    /\ LET secs == sections(fields)
       IN /\ activeTab = IF Len(secs) > 0 THEN secs[1].id ELSE Null
          /\ thrown = RenderThrows(secs)
    /\ upd = NoUpdate

InitMount ==
    /\ initialValues = EmptyDict
    /\ values = EmptyDict
    /\ validationErrors = <<>>
    /\ \/ /\ build = "part_001"
          /\ fields \in MountLists(MaxFields)
          /\ Mounted
       \/ /\ build = "interface.vue"
          /\ fields \in SectionLists(MaxChildren)
          /\ MountedSections
    /\ last = NoCall
    /\ lastApply = NoEvent
    /\ ResolverIdle

\* the host reports the first validation errors: one error, on any name
HostErrors ==
    /\ build = "part_001"
    /\ validationErrors = <<>>
    /\ \E f \in UNames \cup {TopField} :
        UpdateCycle(FALSE, FALSE, TRUE, FALSE, fields, values, <<f>>)

NextMount == handleTabChange \/ HostErrors

SpecMount == InitMount /\ [][NextMount]_vars

----------------------------------------------------------------------------
(* Claims about the value view / merge layer (SpecFields) *)

Called == last.called
CalledMerge == last.called /\ build = "part_000"

\* the keys of the last call that do not name a field of the tab's section
OutsideKeys == ((DOMAIN last.allValues) \cup (DOMAIN last.merged)) \ last.section

OutsideKept ==
    \A k \in OutsideKeys :
        /\ k \in DOMAIN last.merged
        /\ k \in DOMAIN last.allValues
        /\ last.merged[k] = last.allValues[k]

\* C1: every dictionary emitted by 'apply' agrees with props.allValues on
\* every key that is not the name of a field of the tab's fieldsInSection:
\* such a key is in the emitted dictionary iff it is in allValues, with the
\* same value (both Fields components).
C1_OutsideTabUnchanged == (Called /\ last.emitted) => OutsideKept

\* an edit in one tab was emitted while allValues held values of fields
\* outside that tab
C1_Witness ==
    /\ Called /\ last.emitted
    /\ \E k \in OutsideKeys : k \in DOMAIN last.allValues
    /\ \E k \in last.section : k \in DOMAIN last.merged

\* the section's initial values as the call saw them
InitialOf(k) == IF k \in last.section THEN Get(initialValues, k) ELSE Undefined

ScenarioState ==
    /\ fields = FlatFormList
    /\ initialValues = [k \in {"title", "body"} |-> IF k = "title" THEN "A" ELSE "B"]
    /\ last.allValues = [k \in {"title", "body"} |-> IF k = "title" THEN "A" ELSE "B"]
    /\ last.tab = "grp1"
    /\ last.newValues = [k \in {"title"} |-> "A2"]

\* C2: the section keys of the merged dictionary are exactly the keys of
\* newValues whose new value differs from the section-filtered initial value,
\* each mapped to its new value (a section key of allValues that newValues
\* lacks is dropped); in the scenario of the spec, editing title to A2 in
\* grp1's tab emits {title: A2, body: B}.
C2_SectionKeysAreDelta ==
    CalledMerge =>
        /\ (DOMAIN last.merged) \cap last.section
             = {k \in DOMAIN last.newValues : last.newValues[k] # InitialOf(k)}
        /\ \A k \in (DOMAIN last.merged) \cap last.section :
             last.merged[k] = last.newValues[k]
        /\ ScenarioState =>
             /\ last.emitted
             /\ last.merged = [k \in {"title", "body"} |-> IF k = "title" THEN "A2" ELSE "B"]

\* the scenario happened, and so did a call that dropped a section key
C2_Witness ==
    /\ CalledMerge
    /\ ScenarioState
    /\ last.merged = [k \in {"title", "body"} |-> IF k = "title" THEN "A2" ELSE "B"]

\* C3 as stated: editing a field away from its initial value (the host
\* applies the emitted dictionary) and then back emits no 'apply' event.
C3_RevertEmitsNothing == (Called /\ last.revertOf # Null) => ~last.emitted

\* C3 amended: the edit back does emit one 'apply' event; its dictionary
\* agrees with the current values on every other key and, for the field
\* itself, no longer holds it (merge against the initial values) or holds
\* the initial value (src/src/Fields.vue).
C3_RevertEmitsWithoutField ==
    (Called /\ last.revertOf # Null) =>
        /\ last.emitted
        /\ \A k \in ((DOMAIN last.allValues) \cup (DOMAIN last.merged)) \ {last.revertOf} :
             /\ k \in DOMAIN last.merged
             /\ k \in DOMAIN last.allValues
             /\ last.merged[k] = last.allValues[k]
        /\ last.revertOf \in DOMAIN last.allValues
        /\ last.allValues[last.revertOf] # initialValues[last.revertOf]
        /\ build = "part_000" => last.revertOf \notin DOMAIN last.merged
        /\ build = "Fields.vue" =>
             /\ last.revertOf \in DOMAIN last.merged
             /\ last.merged[last.revertOf] = initialValues[last.revertOf]

C3_Witness == Called /\ last.revertOf # Null /\ last.emitted /\ build = "part_000"

\* C4 as stated: when the merge produces a dictionary equal to the one of the
\* previous 'apply' event, nothing is emitted, also when the host has not
\* applied the previous emission.
C4_NoRepeatedEmit == (CalledMerge /\ last.repeat) => ~last.emitted

\* C4 amended: 'apply' is emitted iff the merged dictionary differs from the
\* current props.allValues; so a merge equal to the previous emission is
\* suppressed whenever the host has applied that emission.
C4_EmitIffDiffersFromAllValues ==
    CalledMerge =>
        /\ last.emitted <=> (last.merged # last.allValues)
        /\ (last.repeat /\ last.applied) => ~last.emitted

C4_Witness == CalledMerge /\ last.repeat /\ last.applied /\ ~last.emitted

\* C5: no merged dictionary maps a field of the section to a value equal to
\* that field's initial value; when every key of newValues equals its initial
\* value, no key of the section is in the merged dictionary.
C5_DeltaIdempotent ==
    CalledMerge =>
        /\ \A k \in (DOMAIN last.merged) \cap last.section :
             last.merged[k] # Get(initialValues, k)
        /\ (\A k \in DOMAIN last.newValues : last.newValues[k] = Get(initialValues, k))
             => (DOMAIN last.merged) \cap last.section = {}

\* a call whose newValues all equal the initial values, with at least one key
C5_Witness ==
    /\ CalledMerge
    /\ DOMAIN last.newValues # {}
    /\ \A k \in DOMAIN last.newValues : last.newValues[k] = Get(initialValues, k)
    /\ (DOMAIN last.merged) \cap last.section = {}

\* the call passed the section's filtered values back unchanged
RoundTrip ==
    /\ last.newValues = last.shown
    /\ last.shown = Pick(last.allValues, last.section)

\* C6: passing filteredValues back unchanged keeps every key outside the
\* section as in allValues and, inside the section, holds only keys that
\* allValues had, with their values.
C6_RoundTrip ==
    (CalledMerge /\ RoundTrip) =>
        /\ OutsideKept
        /\ \A k \in (DOMAIN last.merged) \cap last.section :
             /\ k \in DOMAIN last.allValues
             /\ last.merged[k] = last.allValues[k]

\* a round trip with keys on both sides of the section's border
C6_Witness ==
    /\ CalledMerge /\ RoundTrip
    /\ \E k \in OutsideKeys : k \in DOMAIN last.allValues
    /\ \E k \in last.section : k \in DOMAIN last.merged

----------------------------------------------------------------------------
(* Claims about the group-membership resolver (SpecResolver) *)

\* C7: the sequence returned by getFieldsForGroup(g, [], fields) holds no
\* field more than once, also when group membership is cyclic.
C7_NoFieldTwice == pc = "done" => NoDup(result)

\* C8: getFieldsForGroup terminates for every field list and group id, cyclic
\* membership included: no recursive call descends into a group id a second
\* time, the call stack stays within the number of groups, no error is raised,
\* and every run that started returns.
C8_Terminates ==
    /\ [](/\ pc # "overflow"
          /\ NoDup(descents)
          /\ Len(stack) <= Len(fields) + 1)
    /\ (pc = "run") ~> (pc = "done")

\* a run over a cycle returned: the group asked for was descended into again
C8_Witness ==
    /\ pc = "done"
    /\ InSeq(rGroup, descents)
    /\ Len(descents) >= 2

----------------------------------------------------------------------------
(* Claims about the tab-activation controller (SpecTabs) *)

ErrorsFired == upd.any /\ upd.fired
Traced == ErrorsFired /\ upd.target \notin {Null, Overflow}

\* C9: when validationErrors changes to a non-empty, structurally different
\* list whose first error's field resolves to a tab T, the active tab is T
\* after the update, whatever tab was active and whatever else changed in the
\* same update.
C9_ErrorTabActivated == Traced => activeTab = upd.target

\* C10: when the first error's field cannot be traced to a tab (unknown
\* field, no group, a chain that ends outside the tabs, or a cycle among
\* groups that are no tabs), findTabGroupForField returns no tab, no error is
\* thrown and the error watcher leaves the active tab as it was.
C10_UntracedErrorIgnored ==
    (ErrorsFired /\ ~Traced) =>
        /\ upd.target = Null
        /\ ~thrown
        /\ ~upd.visibleRan => activeTab = upd.prevTab

----------------------------------------------------------------------------
(* Claims about the tab strip and the sections (SpecMount) *)

IsNewBuild == build = "part_001"

\* the place of a descriptor in the field list
Pos(f) == CHOOSE i \in 1..Len(fields) : fields[i] = f

HasNested(f) == Len(getFieldsForGroup(f.field, fields)) > 0

\* C11: a direct child of the top-level field is in visibleGroupFields if and
\* only if its descendant list getFieldsForGroup(child, [], fields) is not
\* empty; the visible tabs are direct children, in field-list order.
C11_VisibleTabs ==
    IsNewBuild =>
        /\ \A i \in 1..Len(fields) :
              fields[i].group = TopField =>
                  (InSeq(fields[i], VisibleTabs) <=> HasNested(fields[i]))
        /\ \A k \in 1..Len(VisibleTabs) :
              /\ InSeq(VisibleTabs[k], fields)
              /\ VisibleTabs[k].group = TopField
        /\ \A k, l \in 1..Len(VisibleTabs) :
              k < l => Pos(VisibleTabs[k]) < Pos(VisibleTabs[l])

\* a tab without nested fields ahead of a tab with nested fields
C11_Witness ==
    /\ IsNewBuild
    /\ Len(VisibleTabs) >= 1
    /\ \E i \in 1..Len(fields) :
          /\ fields[i].group = TopField
          /\ ~HasNested(fields[i])
          /\ i < Pos(VisibleTabs[1])

\* C12: the active tab is unset until there is a section and is then the id
\* of a section, the first one at the initial selection; with zero sections
\* (empty field list) the active tab stays unset and no exception is raised,
\* the render of the tab strip included.
C12_InitialTab ==
    /\ (Len(TabStrip) = 0 /\ upd = NoUpdate) => (activeTab = Null /\ ~thrown)
    /\ (Len(TabStrip) > 0 /\ validationErrors = <<>>) => InSeq(activeTab, TabStrip)

IsOldBuild == build = "interface.vue"

\* the direct children of the top-level field that are raw groups
RawChildren ==
    SelectSeq(fields, LAMBDA f : f.group = TopField /\ f.interface = GroupRaw)

\* C14: the section builder makes exactly one section per direct child of
\* the top-level field that is a raw group, in field-list order, with id =
\* the child's field name and title = the child's label, or 'Tab N' (N the
\* 1-based position) when the label is absent; when there is a raw-group
\* child, a direct child that is no raw group becomes no tab.  (A title set
\* in the options is taken as the child's label.)
C14_SectionPerRawChild ==
    (IsOldBuild /\ Len(RawChildren) > 0) =>
        LET secs == sections(fields)
        IN /\ Len(secs) = Len(RawChildren)
           /\ \A i \in 1..Len(secs) :
                 i <= Len(RawChildren) =>
                    /\ secs[i].id = RawChildren[i].field
                    /\ RawChildren[i].title = Null =>
                          secs[i].title = IF RawChildren[i].name # Null
                                          THEN RawChildren[i].name
                                          ELSE TabN(i - 1)

\* The field named name is under the group g: its group is g, or its group
\* is a field marked as a group that is under g (at most depth steps up).
RECURSIVE Under(_, _, _, _)
Under(name, g, allFields, depth) ==
    \E i \in 1..Len(allFields) :
        /\ allFields[i].field = name
        /\ \/ allFields[i].group = g
           \/ /\ depth > 0
              /\ \E j \in 1..Len(allFields) :
                    /\ allFields[j].field = allFields[i].group
                    /\ allFields[j].special
                    /\ Under(allFields[j].field, g, allFields, depth - 1)

\* a section's field list: the group field itself with its label hidden,
\* then fields under the group
OwnFieldFirst(sec, groupField) ==
    /\ Len(sec) >= 1
    /\ sec[1] = [groupField EXCEPT !.hideLabel = TRUE]
    /\ InSeq(groupField, fields)
    /\ ~groupField.hideLabel
    /\ \A k \in 2..Len(sec) : Under(sec[k].field, groupField.field, fields, Len(fields))

----------------------------------------------------------------------------
(* Claims about update cycles (SpecTabs) *)

\* the last step was an update cycle in which the error watcher did not pass
\* its guards
SnapshotOnly == upd.any /\ ~upd.fired

\* C13: after the initial selection only handleTabChange and the
\* validation-error navigation change the active tab: a new snapshot of the
\* field list or of the values, with the selected tab still among the visible
\* tabs, leaves the active tab unchanged.
C13_SnapshotKeepsTab ==
    (SnapshotOnly /\ upd.prevTab # Null /\ InSeq(upd.prevTab, TabStrip)) =>
        activeTab = upd.prevTab

\* the value filter on the current values and the current field list
FreshGroupValues == filterValuesForGroup(values, limitFields(fields), fields)

C18_ActiveTabVisible == activeTab = Null \/ InSeq(activeTab, TabStrip)

\* C18, amended: while at least one tab is visible the active tab is one of
\* the visible tabs; an update cycle that leaves no tab visible keeps the
\* active tab as it was, which then names no visible tab.
C18_ActiveTabVisibleIfAny ==
    /\ Len(TabStrip) > 0 => InSeq(activeTab, TabStrip)
    /\ (Len(TabStrip) = 0 /\ upd.any) => activeTab = upd.prevTab

\* the tab that was active is no longer visible, another one is
C18_Witness ==
    /\ upd.any
    /\ upd.prevTab # Null
    /\ ~InSeq(upd.prevTab, TabStrip)
    /\ Len(TabStrip) > 0

\* C19: after every completed update cycle groupValues is structurally equal
\* to filterValuesForGroup(props.values, groupFields) on the current values
\* and the current field list, also when only the field list changed.
C19_GroupValuesInSync == upd.any => isEqual(groupValues, FreshGroupValues)

----------------------------------------------------------------------------
(* Claims about the resolver on lists without cycles (SpecResolver) *)

\* the field named name has the field named anc above it in its group chain
RECURSIVE HasAncestor(_, _, _, _)
HasAncestor(name, anc, allFields, depth) ==
    \E i \in 1..Len(allFields) :
        /\ allFields[i].field = name
        /\ \/ allFields[i].group = anc
           \/ /\ depth > 0
              /\ HasAncestor(allFields[i].group, anc, allFields, depth - 1)

Acyclic(allFields) ==
    \A i \in 1..Len(allFields) :
        ~HasAncestor(allFields[i].field, allFields[i].field, allFields, Len(allFields))

\* C17: on a field list without cyclic group membership
\* getFieldsForGroup(g, [], fields) returns exactly the fields with a chain
\* f.group = g1, g1.group = g2, ..., gn.group = g whose intermediate gi are
\* fields marked as groups, each once; so a field whose group is not in the
\* list is in no existing group's result, and the call ends without error.
C17_ExactDescendants ==
    /\ Acyclic(fields) => pc # "overflow"
    /\ (pc = "done" /\ Acyclic(fields)) =>
          /\ \A i \in 1..Len(fields) :
                InSeq(fields[i], result) <=>
                    Under(fields[i].field, rGroup, fields, Len(fields))
          /\ \A k \in 1..Len(result) : InSeq(result[k], fields)
          /\ NoDup(result)
          /\ \A i \in 1..Len(fields) :
                (/\ fields[i].group # Null
                 /\ fields[i].group \notin FieldNames(fields)
                 /\ rGroup \in FieldNames(fields)) => ~InSeq(fields[i], result)

\* a finished call on an acyclic list with a nested group and a field whose
\* group is not in the list
C17_Witness ==
    /\ pc = "done"
    /\ Acyclic(fields)
    /\ rGroup \in FieldNames(fields)
    /\ \E k \in 1..Len(result) : result[k].group # rGroup
    /\ \E i \in 1..Len(fields) :
          /\ fields[i].group # Null
          /\ fields[i].group \notin FieldNames(fields)

----------------------------------------------------------------------------
(* Error navigation and section membership (SpecMount) *)

\* the names of the fields shown in the tab of the group field t
ShownIn(t) == FieldNames(fieldsInSection(t, fields))

\* C20: on an acyclic field list findTabGroupForField(f) returns the tab T if
\* and only if f is in T's section field list (T's own group field, then
\* getFieldsForGroup(T)); so a first validation error on a field shown in T,
\* T's own group field included, makes T the active tab.
C20_NavigationAgrees ==
    (IsNewBuild /\ Acyclic(fields)) =>
        \A t \in 1..Len(groupFields) :
            /\ \A i \in 1..Len(fields) :
                  (findTabGroupForField(fields[i].field, groupFields, fields)
                       = groupFields[t].field)
                  <=> fields[i].field \in ShownIn(groupFields[t])
            /\ (ErrorsFired /\ validationErrors[1] \in ShownIn(groupFields[t]))
                  => activeTab = groupFields[t].field

====
